---------------------------- MODULE Spec2Model ----------------------------
(***************************************************************************)
(* Model of src/app.py: the three signal classifiers, the composite        *)
(* evaluation at module level, and the activity-index fallback resolver    *)
(* get_pmi_data_alternative.                                               *)
(*                                                                         *)
(* Numbers.  Rates and spreads are in hundredths of a percentage point     *)
(* (4.32 is 432, the threshold 1.0 is 100); index readings are in tenths   *)
(* of an index point (49.8 is 498, the threshold 45 is 450).  Arithmetic   *)
(* is exact decimal arithmetic; a mean is kept as the pair (sum, count).   *)
(*                                                                         *)
(* Optional values.  Python's None is the empty tuple << >> and a present  *)
(* value x is << x >>.                                                     *)
(***************************************************************************)
EXTENDS Integers, Sequences, FiniteSets, TLC

VARIABLES
    pc,              \* position of the script run of the dashboard
    sofr_fetched,    \* what get_sofr_data() returned
    pmi_fetched,     \* what get_pmi_data_alternative() returned
    yield_fetched,   \* what get_yield_curve_data() returned
    sofr_analysis, sofr_data,
    pmi_analysis, pmi_data,
    yield_analysis, yield_data,
    danger_signals, warning_signals, overall_signal,
    now,             \* resolver: number of month ends from 2023-01-01 to now
    rpc,             \* resolver: position inside get_pmi_data_alternative
    response,        \* resolver: the response the returned series was built from
    outcome,         \* resolver: what became of each strategy attempted
    returned         \* resolver: the value returned (or the exception)

vars == << pc, sofr_fetched, pmi_fetched, yield_fetched, sofr_analysis, sofr_data,
           pmi_analysis, pmi_data, yield_analysis, yield_data,
           danger_signals, warning_signals, overall_signal,
           now, rpc, response, outcome, returned >>

dashVars == << pc, sofr_fetched, pmi_fetched, yield_fetched, sofr_analysis, sofr_data,
               pmi_analysis, pmi_data, yield_analysis, yield_data,
               danger_signals, warning_signals, overall_signal >>

resolverVars == << now, rpc, response, outcome, returned >>

---------------------------------------------------------------------------
(* Python and pandas helpers *)

None == << >>

Some(x) == << x >>

IsNone(o) == Len(o) = 0

Get(o) == o[1]

\* [x] * n
Pad(x, n) == [i \in 1..n |-> x]

\* len(series) >= -k is what makes series.iloc[k] (k < 0) defined; otherwise IndexError
IlocOK(s, k) == (0 - k) \in 1..Len(s)

\* series.iloc[k] for a negative position k
Iloc(s, k) == s[Len(s) + k + 1]

\* series.tail(n): the last n observations, all of them when there are fewer
TailN(s, n) == IF Len(s) <= n THEN s ELSE SubSeq(s, Len(s) - n + 1, Len(s))

RECURSIVE SumSeq(_)
SumSeq(s) == IF Len(s) = 0 THEN 0 ELSE s[1] + SumSeq(SubSeq(s, 2, Len(s)))

\* series.mean(), as the exact fraction sum / count
Mean(s) == [sum |-> SumSeq(s), count |-> Len(s)]

---------------------------------------------------------------------------
(* analyze_sofr_signal *)

SOFR_MIN_LEN == 2

SOFR_WINDOW == 30

SOFR_SEVERE == 100

SOFR_EARLY == 20

SOFR_DEVIATION == 50

\* the tuple returned by a classifier, or the exception it raised
Returned(analysis, data) == [raised |-> FALSE, analysis |-> analysis, data |-> data]

Raised == [raised |-> TRUE, analysis |-> None, data |-> None]

\* mutant: the guard compares against one observation too few
InsufficientData_OffByOne(fetched, min_len) ==
    IsNone(fetched) \/ Len(Get(fetched)) < min_len - 1

\* `data is None or len(data) < min_len`: the guard of every classifier
InsufficientData(fetched, min_len) == IsNone(fetched) \/ Len(Get(fetched)) < min_len

\* mutant: the deviation test is tried before the two daily-change tests
SofrSignal_DeviationFirst(daily_change, deviation_from_avg) ==
    IF deviation_from_avg.num >= SOFR_DEVIATION * deviation_from_avg.den
    THEN "caution"
    ELSE IF daily_change >= SOFR_SEVERE THEN "severe crisis"
    ELSE IF daily_change >= SOFR_EARLY THEN "early warning"
    ELSE "normal"

\* the if / elif chain over daily_change and deviation_from_avg (a fraction num / den)
SofrSignal(daily_change, deviation_from_avg) ==
    IF daily_change >= SOFR_SEVERE THEN "severe crisis"
    ELSE IF daily_change >= SOFR_EARLY THEN "early warning"
    ELSE IF deviation_from_avg.num >= SOFR_DEVIATION * deviation_from_avg.den
         THEN "caution"
    ELSE "normal"

analyze_sofr_signal(fetched) ==
    IF InsufficientData(fetched, SOFR_MIN_LEN)
    THEN Returned(None, None)
    ELSE LET s == Get(fetched) IN
         IF ~IlocOK(s, -1) \/ ~IlocOK(s, -2)
         THEN Raised
         ELSE LET current_rate == Iloc(s, -1)
                  previous_rate == Iloc(s, -2)
                  daily_change == current_rate - previous_rate
                  recent_avg == Mean(TailN(s, SOFR_WINDOW))
                  \* current_rate - recent_avg, as a fraction num / den
                  deviation_from_avg ==
                      [num |-> current_rate * recent_avg.count - recent_avg.sum,
                       den |-> recent_avg.count]
              IN Returned(Some([current_rate |-> current_rate,
                                daily_change |-> daily_change,
                                deviation_from_avg |-> deviation_from_avg,
                                signal |-> SofrSignal(daily_change, deviation_from_avg)]),
                          Some(s))

---------------------------------------------------------------------------
(* analyze_pmi_signal *)

PMI_MIN_LEN == 3

PMI_MONTHS == 3

PMI_CRISIS == 450

PMI_BASELINE == 500

\* all(recent_3_months < 45)
AllBelow(s, limit) == \A i \in 1..Len(s) : s[i] < limit

\* mutant: the two months before the latest are not looked at
PmiSignal_LatestOnly(current_pmi, recent_3_months) ==
    IF current_pmi < PMI_CRISIS THEN "crisis realized"
    ELSE IF current_pmi < PMI_BASELINE THEN "caution"
    ELSE "normal"

PmiSignal(current_pmi, recent_3_months) ==
    IF current_pmi < PMI_CRISIS
    THEN IF AllBelow(recent_3_months, PMI_CRISIS) THEN "crisis realized" ELSE "warning"
    ELSE IF current_pmi < PMI_BASELINE THEN "caution"
    ELSE "normal"

analyze_pmi_signal(fetched) ==
    IF InsufficientData(fetched, PMI_MIN_LEN)
    THEN Returned(None, None)
    ELSE LET s == Get(fetched) IN
         IF ~IlocOK(s, -1)
         THEN Raised
         ELSE LET current_pmi == Iloc(s, -1)
                  recent_3_months == TailN(s, PMI_MONTHS)
              IN Returned(Some([current_pmi |-> current_pmi,
                                recent_3_months_avg |-> Mean(recent_3_months),
                                signal |-> PmiSignal(current_pmi, recent_3_months)]),
                          Some(s))

---------------------------------------------------------------------------
(* analyze_yield_curve_signal *)

YIELD_MIN_LEN == 30

YIELD_CHANGE == 50

\* The labels of the spread classifier are tested by substring later on, so a label
\* is the sequence of its words.
YIELD_NORMAL == << "normal" >>

YIELD_INVERTED == << "curve", "inverted", "recession", "forewarned" >>

YIELD_IMMINENT == << "recession", "imminent", "rapid", "normalization" >>

\* mutant: the comparison value is taken one observation later
PriorSpread_Later(s) == Iloc(s, -29)

\* yield_data.iloc[-30]: the value the latest spread is compared with
PriorSpread(s) == Iloc(s, -30)

PriorSpreadOK(s) == IlocOK(s, -30)

\* mutant: the renormalization test is tried before the inversion test
YieldSignal_RenormalizationFirst(current_spread, change_30_days, prior) ==
    LET is_inverted == current_spread < 0 IN
    IF change_30_days > YIELD_CHANGE /\ prior < 0
    THEN [signal |-> YIELD_IMMINENT, is_inverted |-> is_inverted,
          rapid_normalization |-> TRUE]
    ELSE IF is_inverted
    THEN [signal |-> YIELD_INVERTED, is_inverted |-> is_inverted,
          rapid_normalization |-> FALSE]
    ELSE [signal |-> YIELD_NORMAL, is_inverted |-> is_inverted,
          rapid_normalization |-> FALSE]

\* is_inverted, rapid_normalization and the label, from the if / elif of the function
YieldSignal(current_spread, change_30_days, prior) ==
    LET is_inverted == current_spread < 0 IN
    IF is_inverted
    THEN [signal |-> YIELD_INVERTED, is_inverted |-> is_inverted,
          rapid_normalization |-> FALSE]
    ELSE IF change_30_days > YIELD_CHANGE /\ prior < 0
    THEN [signal |-> YIELD_IMMINENT, is_inverted |-> is_inverted,
          rapid_normalization |-> TRUE]
    ELSE [signal |-> YIELD_NORMAL, is_inverted |-> is_inverted,
          rapid_normalization |-> FALSE]

analyze_yield_curve_signal(fetched) ==
    IF InsufficientData(fetched, YIELD_MIN_LEN)
    THEN Returned(None, None)
    ELSE LET s == Get(fetched) IN
         IF ~IlocOK(s, -1) \/ ~PriorSpreadOK(s)
         THEN Raised
         ELSE LET current_spread == Iloc(s, -1)
                  change_30_days == current_spread - PriorSpread(s)
                  r == YieldSignal(current_spread, change_30_days, PriorSpread(s))
              IN Returned(Some([current_spread |-> current_spread,
                                change_30_days |-> change_30_days,
                                is_inverted |-> r.is_inverted,
                                rapid_normalization |-> r.rapid_normalization,
                                signal |-> r.signal]),
                          Some(s))

---------------------------------------------------------------------------
(* the composite evaluation at module level *)

\* `word in signal` for a label kept as the sequence of its words
Contains(signal, word) == \E i \in 1..Len(signal) : signal[i] = word

\* truthiness of an analysis: None is falsy, a non-empty dict is truthy
Truthy(analysis) == ~IsNone(analysis)

SofrCount(analysis) ==
    IF Truthy(analysis) /\ Get(analysis).signal = "severe crisis"
    THEN [danger |-> 1, warning |-> 0]
    ELSE IF Truthy(analysis) /\ Get(analysis).signal \in {"early warning", "caution"}
    THEN [danger |-> 0, warning |-> 1]
    ELSE [danger |-> 0, warning |-> 0]

PmiCount(analysis) ==
    IF Truthy(analysis) /\ Get(analysis).signal = "crisis realized"
    THEN [danger |-> 1, warning |-> 0]
    ELSE IF Truthy(analysis) /\ Get(analysis).signal \in {"warning", "caution"}
    THEN [danger |-> 0, warning |-> 1]
    ELSE [danger |-> 0, warning |-> 0]

\* mutant: the danger test looks for the word both non-normal labels hold
YieldCount_SharedWord(analysis) ==
    IF Truthy(analysis) /\ Contains(Get(analysis).signal, "recession")
    THEN [danger |-> 1, warning |-> 0]
    ELSE IF Truthy(analysis) /\ Contains(Get(analysis).signal, "inverted")
    THEN [danger |-> 0, warning |-> 1]
    ELSE [danger |-> 0, warning |-> 0]

YieldCount(analysis) ==
    IF Truthy(analysis) /\ Contains(Get(analysis).signal, "imminent")
    THEN [danger |-> 1, warning |-> 0]
    ELSE IF Truthy(analysis) /\ Contains(Get(analysis).signal, "inverted")
    THEN [danger |-> 0, warning |-> 1]
    ELSE [danger |-> 0, warning |-> 0]

DANGER_CRISIS == 2

DANGER_WARNING == 1

WARNING_WARNING == 2

OverallSignal(danger, warning) ==
    IF danger >= DANGER_CRISIS THEN "Crisis"
    ELSE IF danger >= DANGER_WARNING \/ warning >= WARNING_WARNING THEN "Warning"
    ELSE "Normal"

---------------------------------------------------------------------------
(* One run of the script: the three columns in order, then the composite. *)
(* An exception that leaves a classifier ends the run.                    *)

Col1 ==
    /\ pc = "col1"
    /\ LET r == analyze_sofr_signal(sofr_fetched) IN
       IF r.raised
       THEN /\ pc' = "crashed"
            /\ UNCHANGED << sofr_analysis, sofr_data >>
       ELSE /\ pc' = "col2"
            /\ sofr_analysis' = r.analysis
            /\ sofr_data' = r.data
    /\ UNCHANGED << sofr_fetched, pmi_fetched, yield_fetched, pmi_analysis, pmi_data,
                    yield_analysis, yield_data, danger_signals, warning_signals,
                    overall_signal, resolverVars >>

Col2 ==
    /\ pc = "col2"
    /\ LET r == analyze_pmi_signal(pmi_fetched) IN
       IF r.raised
       THEN /\ pc' = "crashed"
            /\ UNCHANGED << pmi_analysis, pmi_data >>
       ELSE /\ pc' = "col3"
            /\ pmi_analysis' = r.analysis
            /\ pmi_data' = r.data
    /\ UNCHANGED << sofr_fetched, pmi_fetched, yield_fetched, sofr_analysis, sofr_data,
                    yield_analysis, yield_data, danger_signals, warning_signals,
                    overall_signal, resolverVars >>

Col3 ==
    /\ pc = "col3"
    /\ LET r == analyze_yield_curve_signal(yield_fetched) IN
       IF r.raised
       THEN /\ pc' = "crashed"
            /\ UNCHANGED << yield_analysis, yield_data >>
       ELSE /\ pc' = "composite"
            /\ yield_analysis' = r.analysis
            /\ yield_data' = r.data
    /\ UNCHANGED << sofr_fetched, pmi_fetched, yield_fetched, sofr_analysis, sofr_data,
                    pmi_analysis, pmi_data, danger_signals, warning_signals,
                    overall_signal, resolverVars >>

Composite ==
    /\ pc = "composite"
    /\ LET a == SofrCount(sofr_analysis)
           b == PmiCount(pmi_analysis)
           c == YieldCount(yield_analysis)
           danger == a.danger + b.danger + c.danger
           warning == a.warning + b.warning + c.warning
       IN /\ danger_signals' = danger
          /\ warning_signals' = warning
          /\ overall_signal' = Some(OverallSignal(danger, warning))
    /\ pc' = "done"
    /\ UNCHANGED << sofr_fetched, pmi_fetched, yield_fetched, sofr_analysis, sofr_data,
                    pmi_analysis, pmi_data, yield_analysis, yield_data, resolverVars >>

Next == Col1 \/ Col2 \/ Col3 \/ Composite

---------------------------------------------------------------------------
(* The fetched series a run starts from *)

\* every sequence over V of length at most n
SeqsUpTo(V, n) == UNION { [1..k -> V] : k \in 0..n }

\* how many observations older than the trailing window a series may hold
MaxOld == 2

\* the run of equal observations that fills a trailing window
MidLen == 28

MaxPmiLen == 4

MaxSofrShort == 2

MaxPmiShort == 3

SofrVals == {400, 410, 430, 450, 500, 600}

\* rates: `a` old observations o, `b` observations h, then up to two free ones
SofrRich ==
    {None} \cup
    { Some(Pad(o, a) \o Pad(h, b) \o t) :
        o \in {400, 600}, a \in 0..MaxOld, h \in {400, 600}, b \in {0, MidLen},
        t \in SeqsUpTo(SofrVals, 2) }

PmiVals == {428, 449, 450, 499, 500, 510}

PmiRich == {None} \cup { Some(s) : s \in SeqsUpTo(PmiVals, MaxPmiLen) }

YieldVals == {-80, -30, -10, 0, 20, 40}

\* spreads: `a` old observations o, one observation x, `b` observations m, the latest
YieldSeries(o, a, x, m, b, latest) == Pad(o, a) \o << x >> \o Pad(m, b) \o << latest >>

YieldRich ==
    {None, Some(<< >>)} \cup
    { Some(YieldSeries(o, a, x, m, b, latest)) :
        o \in YieldVals, a \in 0..MaxOld, x \in YieldVals, m \in {-10, 10},
        b \in (MidLen - 1)..MidLen, latest \in YieldVals }

\* series around the minimum length of each classifier
SofrShort == {None} \cup { Some(s) : s \in SeqsUpTo({400, 500}, MaxSofrShort) }

PmiShort == {None} \cup { Some(s) : s \in SeqsUpTo({440, 510}, MaxPmiShort) }

YieldShort ==
    {None, Some(<< >>), Some(<< 40 >>)} \cup
    { Some(YieldSeries(0, a, x, 0, b, latest)) :
        a \in 0..MaxOld, x \in {-30, 40}, b \in (MidLen - 1)..MidLen, latest \in {-30, 40} }

\* one or two series for every label of every classifier, and the absent ones
SofrSamples ==
    { None, Some(<< 400 >>), Some(<< 400, 500 >>), Some(<< 400, 420 >>),
      Some(<< 200, 400, 410 >>), Some(<< 430, 432 >>), Some(<< 500, 400, 650 >>) }

PmiSamples ==
    { None, Some(<< 440, 435 >>), Some(<< 440, 435, 428 >>), Some(<< 460, 440, 430 >>),
      Some(<< 510, 505, 498 >>), Some(<< 440, 480, 510 >>), Some(<< 449, 450, 449 >>) }

YieldSamples ==
    { None, Some(Pad(10, MidLen + 1)) } \cup
    { Some(YieldSeries(0, 0, x, 0, MidLen, latest)) : x \in {-30, 30}, latest \in {-20, 40} }

ResolverIdle ==
    /\ now = 0
    /\ rpc = "idle"
    /\ response = None
    /\ outcome = << >>
    /\ returned = None

InitWith(S, P, Y) ==
    /\ pc = "col1"
    /\ sofr_fetched \in S
    /\ pmi_fetched \in P
    /\ yield_fetched \in Y
    /\ sofr_analysis = None /\ sofr_data = None
    /\ pmi_analysis = None /\ pmi_data = None
    /\ yield_analysis = None /\ yield_data = None
    /\ danger_signals = 0 /\ warning_signals = 0
    /\ overall_signal = None
    /\ ResolverIdle

Init == InitWith(SofrSamples, PmiSamples, YieldSamples)

InitSofr == InitWith(SofrRich, {None}, {None})

InitPmi == InitWith({None}, PmiRich, {None})

InitYield == InitWith({None}, {None}, YieldRich)

InitShort == InitWith(SofrShort, PmiShort, YieldShort)

Spec == Init /\ [][Next]_vars

SpecSofr == InitSofr /\ [][Next]_vars

SpecPmi == InitPmi /\ [][Next]_vars

SpecYield == InitYield /\ [][Next]_vars

SpecShort == InitShort /\ [][Next]_vars

---------------------------------------------------------------------------
(* get_pmi_data_alternative *)
(* A cell of a list or of a Series is << n >> for the number n and << >>  *)
(* for None / NaN (a JSON null).  `now` counts the month ends from        *)
(* 2023-01-01 to datetime.now(); the dates are numbered 1..now.           *)

Cell(n) == << n >>

NaN == << >>

Cells(s) == [i \in 1..Len(s) |-> Cell(s[i])]

\* pd.date_range(start='2023-01-01', end=datetime.now(), freq='M')
DateRange(n) == [i \in 1..n |-> i]

\* list * k
RECURSIVE Repeat(_, _)
Repeat(l, k) == IF k <= 0 THEN << >> ELSE l \o Repeat(l, k - 1)

\* list[:n]
Prefix(l, n) == IF Len(l) <= n THEN l ELSE SubSeq(l, 1, n)

\* list[-n:]  (list[-0:] is the whole list)
SliceLast(l, n) == IF n = 0 \/ Len(l) <= n THEN l ELSE SubSeq(l, Len(l) - n + 1, Len(l))

\* pd.Series(values, index=dates): ValueError when the lengths differ
PdSeries(values, dates) ==
    IF Len(values) # Len(dates)
    THEN [raised |-> TRUE, series |-> None]
    ELSE [raised |-> FALSE, series |-> Some([index |-> dates, values |-> values])]

\* what a strategy comes to: it returned a series, it raised, or it fell through
StrategyReturned(series) == [result |-> "returned", series |-> Some(series)]

StrategyRaised == [result |-> "exception", series |-> None]

StrategyDeclined == [result |-> "declined", series |-> None]

HTTP_OK == 200

DEFAULT_LATEST == 498

DEFAULT_VALUE == 500

base_values == << 502, 498, 485, 479, 491, 498 >>

\* d.get('Value', d.get('value', default)) for a dict d
GetValue(d, default) ==
    IF d.key \in {"Value", "value"} THEN d.val ELSE Cell(default)

\* lines 122-125: points missing from the source
FillShortfall(pmi_values, n) ==
    IF Len(pmi_values) < n
    THEN Cells(Prefix(Repeat(base_values, (n \div Len(base_values)) + 1), n))
    ELSE pmi_values

\* lines 102-130: the primary API strategy on the response r, for n dates
PrimaryStrategy(r, n) ==
    IF r.raised THEN StrategyRaised
    ELSE IF r.status_code # HTTP_OK THEN StrategyDeclined
    ELSE IF ~r.json.valid THEN StrategyRaised
    ELSE IF r.json.shape = "empty" THEN StrategyDeclined
    ELSE LET data == r.json.items
             latest == data[Len(data)]
         IN IF ~latest.isdict THEN StrategyRaised
            \* float(None) raises
            ELSE IF GetValue(latest, DEFAULT_LATEST) = NaN THEN StrategyRaised
            \* a dict cannot be sliced
            ELSE IF r.json.shape = "dict" THEN StrategyRaised
            ELSE LET points == SliceLast(data, n) IN
                 IF \E i \in 1..Len(points) : ~points[i].isdict THEN StrategyRaised
                 ELSE LET pmi_values ==
                              [i \in 1..Len(points) |-> GetValue(points[i], DEFAULT_VALUE)]
                          made == PdSeries(FillShortfall(pmi_values, n), DateRange(n))
                      IN IF made.raised THEN StrategyRaised
                         ELSE StrategyReturned(Get(made.series))

selectors == << "#p", ".ticker-value", "[data-last]", ".actual-value", ".current-value" >>

SCRAPE_MIN == 300

SCRAPE_MAX == 800

\* lines 152-165: the first script whose payload parses gives the value
RECURSIVE ScriptValue(_)
ScriptValue(scripts) ==
    IF Len(scripts) = 0 THEN None
    ELSE IF scripts[1].tag = "value" THEN Some(scripts[1].v)
    ELSE ScriptValue(Tail(scripts))

\* lines 177-189: the first selector whose number lies in [30, 80] gives the value;
\* found[i] is the number in the text of the element of selectors[i], if any
RECURSIVE SelectorValue(_, _, _)
SelectorValue(found, i, current_value) ==
    IF i > Len(selectors) THEN current_value
    ELSE IF ~IsNone(found[i]) /\ SCRAPE_MIN <= Get(found[i]) /\ Get(found[i]) <= SCRAPE_MAX
    THEN found[i]
    ELSE SelectorValue(found, i + 1, current_value)

\* truthiness of current_value: None and 0.0 are falsy
TruthyValue(current_value) == ~IsNone(current_value) /\ Get(current_value) # 0

\* lines 149-189
CurrentValue(page) ==
    LET from_scripts == ScriptValue(page.scripts) IN
    IF ~TruthyValue(from_scripts)
    THEN SelectorValue(page.found, 1, from_scripts)
    ELSE from_scripts

pmi_trend(current_value) ==
    << 524, 519, 508, 492, 487, 478, 489, 495, 483, 491, 488, current_value >>

\* pmi_values[-1] = current_value; IndexError on an empty list
SetLast(l, x) == [l EXCEPT ![Len(l)] = x]

\* lines 195-208: the values of the series built around the scraped reading
ScrapeValues(n, current_value) ==
    LET trend == pmi_trend(current_value)
        pmi_values ==
            IF n > Len(trend)
            THEN Prefix(Repeat(trend, (n \div Len(trend)) + 1), n)
            ELSE SliceLast(trend, n)
    IN SetLast(pmi_values, current_value)

\* lines 133-213: the scrape strategy on the response r, for n dates
ScrapeStrategy(r, n) ==
    IF r.raised THEN StrategyRaised
    ELSE IF r.status_code # HTTP_OK THEN StrategyDeclined
    ELSE LET current_value == CurrentValue(r.page) IN
         IF ~TruthyValue(current_value) THEN StrategyDeclined
         ELSE LET made == PdSeries(Cells(ScrapeValues(n, Get(current_value))), DateRange(n))
              IN IF made.raised THEN StrategyRaised
                 ELSE StrategyReturned(Get(made.series))

realistic_pmi_data == << 524, 519, 518, 509, 497, 485, 478, 489, 492, 487, 491, 482, 498 >>

\* mutant: the repeated backup data is not cut to the number of dates
BackupValues_Uncut(n) ==
    IF n > Len(realistic_pmi_data)
    THEN Repeat(realistic_pmi_data, (n \div Len(realistic_pmi_data)) + 1)
    ELSE SliceLast(realistic_pmi_data, n)

\* lines 225-229
BackupValues(n) ==
    IF n > Len(realistic_pmi_data)
    THEN Prefix(Repeat(realistic_pmi_data, (n \div Len(realistic_pmi_data)) + 1), n)
    ELSE SliceLast(realistic_pmi_data, n)

\* lines 216-231: the backup strategy; an exception here leaves the function
BackupStrategy(n) == PdSeries(Cells(BackupValues(n)), DateRange(n))

AttemptPrimary(responses) ==
    /\ rpc = "primary"
    /\ \E r \in responses :
         LET s == PrimaryStrategy(r, now) IN
         /\ response' = IF s.result = "returned" THEN Some(r) ELSE None
         /\ outcome' = Append(outcome, [strategy |-> "primary", result |-> s.result])
         /\ IF s.result = "returned"
            THEN /\ returned' = Some([raised |-> FALSE, series |-> s.series])
                 /\ rpc' = "done"
            ELSE /\ returned' = returned
                 /\ rpc' = "scrape"
    /\ UNCHANGED << now, dashVars >>

AttemptScrape(responses) ==
    /\ rpc = "scrape"
    /\ \E r \in responses :
         LET s == ScrapeStrategy(r, now) IN
         /\ response' = IF s.result = "returned" THEN Some(r) ELSE None
         /\ outcome' = Append(outcome, [strategy |-> "scrape", result |-> s.result])
         /\ IF s.result = "returned"
            THEN /\ returned' = Some([raised |-> FALSE, series |-> s.series])
                 /\ rpc' = "done"
            ELSE /\ returned' = returned
                 /\ rpc' = "backup"
    /\ UNCHANGED << now, dashVars >>

Backup ==
    /\ rpc = "backup"
    /\ LET s == BackupStrategy(now) IN
       /\ returned' = Some(s)
       /\ outcome' = Append(outcome, [strategy |-> "backup",
                                      result |-> IF s.raised THEN "exception" ELSE "returned"])
    /\ rpc' = "done"
    /\ UNCHANGED << now, response, dashVars >>

---------------------------------------------------------------------------
(* The responses the two sites may give *)

MaxDates == 27

\* the most points the API returns beyond two free ones
MaxPoints == 14

Dict(key, val) == [isdict |-> TRUE, key |-> key, val |-> val]

NotADict == [isdict |-> FALSE, key |-> "none", val |-> NaN]

Items ==
    { Dict("Value", Cell(523)), Dict("Value", Cell(1500)), Dict("Value", Cell(-20)),
      Dict("value", Cell(478)), Dict("none", NaN), Dict("Value", NaN), NotADict }

Json(valid, shape, items) == [valid |-> valid, shape |-> shape, items |-> items]

HttpResponse(status_code, json, page) ==
    [raised |-> FALSE, status_code |-> status_code, json |-> json, page |-> page]

NoPage == [scripts |-> << >>, found |-> [i \in 1..Len(selectors) |-> None]]

NoJson == Json(FALSE, "empty", << >>)

\* requests.get raised (no connection, timeout)
NoResponse == [raised |-> TRUE, status_code |-> 0, json |-> NoJson, page |-> NoPage]

ApiResponses ==
    { NoResponse, HttpResponse(503, NoJson, NoPage), HttpResponse(HTTP_OK, NoJson, NoPage),
      HttpResponse(HTTP_OK, Json(TRUE, "empty", << >>), NoPage) }
    \cup { HttpResponse(HTTP_OK, Json(TRUE, "dict", << d >>), NoPage) : d \in Items \ {NotADict} }
    \cup { HttpResponse(HTTP_OK, Json(TRUE, "list", Pad(Dict("Value", Cell(505)), k) \o t), NoPage) :
             k \in 0..MaxPoints, t \in SeqsUpTo(Items, 2) \ {<< >>} }

Scripts ==
    { [tag |-> "skipped", v |-> 0], [tag |-> "unparsable", v |-> 0],
      [tag |-> "value", v |-> 0], [tag |-> "value", v |-> 523], [tag |-> "value", v |-> 9990] }

\* the numbers found under the five selectors: at most two elements hold one
Found ==
    { f \in [1..Len(selectors) -> {None, Some(250), Some(487), Some(512)}] :
        Cardinality({ i \in 1..Len(selectors) : ~IsNone(f[i]) }) <= 2 }

Pages == { [scripts |-> s, found |-> f] : s \in SeqsUpTo(Scripts, 2), f \in Found }

ScrapeResponses ==
    { NoResponse, HttpResponse(404, NoJson, NoPage) }
    \cup { HttpResponse(HTTP_OK, NoJson, p) : p \in Pages }

InitResolver ==
    /\ now \in 1..MaxDates
    /\ rpc = "primary"
    /\ response = None
    /\ outcome = << >>
    /\ returned = None
    /\ pc = "idle"
    /\ sofr_fetched = None /\ pmi_fetched = None /\ yield_fetched = None
    /\ sofr_analysis = None /\ sofr_data = None
    /\ pmi_analysis = None /\ pmi_data = None
    /\ yield_analysis = None /\ yield_data = None
    /\ danger_signals = 0 /\ warning_signals = 0
    /\ overall_signal = None

NextResolver == AttemptPrimary(ApiResponses) \/ AttemptScrape(ScrapeResponses) \/ Backup

SpecResolver == InitResolver /\ [][NextResolver]_vars

---------------------------------------------------------------------------
(* Properties of the classifiers and of the composite evaluation *)

\* the columns that have run
SofrRan == pc \in {"col2", "col3", "composite", "done"}

PmiRan == pc \in {"col3", "composite", "done"}

YieldRan == pc \in {"composite", "done"}

Present(fetched, min_len) == ~IsNone(fetched) /\ Len(Get(fetched)) >= min_len

RECURSIVE SumFrom(_, _, _)
SumFrom(s, lo, hi) == IF lo > hi THEN 0 ELSE s[lo] + SumFrom(s, lo + 1, hi)

\* the label the rule of C1 gives a rate series of at least two observations:
\* deviation >= 0.5 is latest * k - (sum of the last k) >= 0.5 * k, k = min(n, 30)
C1_Label(s) ==
    LET n == Len(s)
        k == IF n < 30 THEN n ELSE 30
        dailyChange == s[n] - s[n - 1]
        deviationTimesK == s[n] * k - SumFrom(s, n - k + 1, n)
    IN IF dailyChange >= 100 THEN "severe crisis"
       ELSE IF dailyChange >= 20 THEN "early warning"
       ELSE IF deviationTimesK >= 50 * k THEN "caution"
       ELSE "normal"

\* C1: every rate series of at least 2 observations is labelled by first match on
\* dailyChange >= 1.0 (severe crisis), dailyChange >= 0.2 (early warning),
\* deviation from the mean of the last 30 observations >= 0.5 (caution), else normal;
\* dailyChange >= 1.0 gives severe crisis whatever the deviation.
C1_SofrPriority ==
    (SofrRan /\ Present(sofr_fetched, 2)) =>
        LET s == Get(sofr_fetched) IN
        /\ ~IsNone(sofr_analysis)
        /\ Get(sofr_analysis).signal = C1_Label(s)
        /\ (s[Len(s)] - s[Len(s) - 1] >= 100 => Get(sofr_analysis).signal = "severe crisis")

\* a jump of at least 1.0 to a rate still below the trailing mean, over a series longer
\* than the window
C1_Witness ==
    /\ SofrRan /\ Present(sofr_fetched, 31)
    /\ Get(sofr_analysis).daily_change >= 100
    /\ Get(sofr_analysis).deviation_from_avg.num < 0
    /\ Get(sofr_analysis).signal = "severe crisis"

\* C2: for an activity series of at least 3 observations the label is crisis realized
\* exactly when the last three observations are all below 45, warning when the latest
\* is below 45 and one of the three is not, caution when 45 <= latest < 50, normal when
\* latest >= 50.
C2_PmiLabels ==
    (PmiRan /\ Present(pmi_fetched, 3)) =>
        LET s == Get(pmi_fetched)
            n == Len(s)
            threeBelow == s[n] < 450 /\ s[n - 1] < 450 /\ s[n - 2] < 450
            signal == Get(pmi_analysis).signal
        IN /\ ~IsNone(pmi_analysis)
           /\ (signal = "crisis realized") <=> threeBelow
           /\ (signal = "warning") <=> (s[n] < 450 /\ ~threeBelow)
           /\ (signal = "caution") <=> (450 <= s[n] /\ s[n] < 500)
           /\ (signal = "normal") <=> (s[n] >= 500)

\* the latest reading below 45 with a month of the trailing three at 45 or more
C2_Witness ==
    /\ PmiRan /\ Present(pmi_fetched, 4)
    /\ Get(pmi_fetched)[Len(Get(pmi_fetched))] < 450
    /\ Get(pmi_fetched)[Len(Get(pmi_fetched)) - 2] >= 450
    /\ Get(pmi_analysis).signal = "warning"

\* C3: for a spread series of at least 30 observations the label is curve inverted
\* whenever latest < 0, recession imminent exactly when latest >= 0, the compared
\* earlier value is negative and latest exceeds it by more than 0.5, normal otherwise;
\* rapid_normalization is true exactly with recession imminent, never with is_inverted.
C3_YieldLabels ==
    (YieldRan /\ Present(yield_fetched, 30)) =>
        LET s == Get(yield_fetched)
            n == Len(s)
            latest == s[n]
            prior == s[n - 29]
            a == Get(yield_analysis)
            imminent == latest >= 0 /\ prior < 0 /\ latest - prior > 50
        IN /\ ~IsNone(yield_analysis)
           /\ (latest < 0 => a.signal = YIELD_INVERTED)
           /\ (a.signal = YIELD_IMMINENT) <=> imminent
           /\ (a.signal = YIELD_NORMAL) <=> (latest >= 0 /\ ~imminent)
           /\ a.rapid_normalization <=> (a.signal = YIELD_IMMINENT)
           /\ a.is_inverted <=> (latest < 0)
           /\ ~(a.is_inverted /\ a.rapid_normalization)

\* a spread still negative that rose by more than 0.5 from a negative value: inverted
C3_Witness ==
    /\ YieldRan /\ Present(yield_fetched, 30)
    /\ Get(yield_analysis).current_spread < 0
    /\ Get(yield_analysis).change_30_days > 50
    /\ Get(yield_analysis).signal = YIELD_INVERTED
    /\ ~Get(yield_analysis).rapid_normalization

\* C4, for one classifier: no exception; absence, with no data beside it, for a missing
\* or short input; a result for an input of the minimum length or more.
C4_For(ran, fetched, min_len, analysis, data) ==
    ran => /\ Present(fetched, min_len) => ~IsNone(analysis)
           /\ ~Present(fetched, min_len) => (IsNone(analysis) /\ IsNone(data))

\* C4: each classifier returns absence, without raising and with no partial result,
\* for a missing input and for fewer than 2 (rate), 3 (activity), 30 (spread)
\* observations, and a result for every series at or above that length.
C4_AbsenceWhenShort ==
    /\ pc # "crashed"
    /\ C4_For(SofrRan, sofr_fetched, 2, sofr_analysis, sofr_data)
    /\ C4_For(PmiRan, pmi_fetched, 3, pmi_analysis, pmi_data)
    /\ C4_For(YieldRan, yield_fetched, 30, yield_analysis, yield_data)

\* 29 spreads give absence, 2 rates and 3 readings give results, in one run
C4_Witness ==
    /\ pc = "done"
    /\ ~IsNone(yield_fetched) /\ Len(Get(yield_fetched)) = 29 /\ IsNone(yield_analysis)
    /\ ~IsNone(sofr_fetched) /\ Len(Get(sofr_fetched)) = 2 /\ ~IsNone(sofr_analysis)
    /\ ~IsNone(pmi_fetched) /\ Len(Get(pmi_fetched)) = 3 /\ ~IsNone(pmi_analysis)

\* the labels that count as danger and as warning
C5_Danger ==
    { i \in {"rate", "activity", "spread"} :
        \/ i = "rate" /\ ~IsNone(sofr_analysis) /\ Get(sofr_analysis).signal = "severe crisis"
        \/ i = "activity" /\ ~IsNone(pmi_analysis)
                          /\ Get(pmi_analysis).signal = "crisis realized"
        \/ i = "spread" /\ ~IsNone(yield_analysis)
                        /\ Get(yield_analysis).signal = YIELD_IMMINENT }

C5_Warning ==
    { i \in {"rate", "activity", "spread"} :
        \/ i = "rate" /\ ~IsNone(sofr_analysis)
                      /\ Get(sofr_analysis).signal \in {"early warning", "caution"}
        \/ i = "activity" /\ ~IsNone(pmi_analysis)
                          /\ Get(pmi_analysis).signal \in {"warning", "caution"}
        \/ i = "spread" /\ ~IsNone(yield_analysis)
                        /\ Get(yield_analysis).signal = YIELD_INVERTED }

\* C5: the verdict is Crisis when at least 2 results are danger labels, else Warning
\* when at least 1 is or at least 2 are warning labels, else Normal; a result adds to
\* at most one count, an absent one to none and it stops nothing; three absent results
\* give Normal.
C5_CompositeRule ==
    /\ pc = "composite" => ENABLED Composite
    /\ pc = "done" =>
        LET d == Cardinality(C5_Danger)
            w == Cardinality(C5_Warning)
        IN /\ danger_signals = d
           /\ warning_signals = w
           /\ C5_Danger \cap C5_Warning = {}
           /\ overall_signal =
                Some(IF d >= 2 THEN "Crisis"
                     ELSE IF d >= 1 \/ w >= 2 THEN "Warning"
                     ELSE "Normal")
           /\ (IsNone(sofr_analysis) /\ IsNone(pmi_analysis) /\ IsNone(yield_analysis))
                => overall_signal = Some("Normal")

\* an inverted curve and one early warning, the activity result absent: Warning
C5_Witness ==
    /\ pc = "done"
    /\ IsNone(pmi_analysis)
    /\ ~IsNone(yield_analysis) /\ Get(yield_analysis).signal = YIELD_INVERTED
    /\ ~IsNone(sofr_analysis) /\ Get(sofr_analysis).signal = "early warning"
    /\ danger_signals = 0 /\ warning_signals = 2
    /\ overall_signal = Some("Warning")

\* C9 as stated: the value compared with the latest spread lies 30 observations
\* before it.
C9_ThirtyBefore ==
    (YieldRan /\ Present(yield_fetched, 30)) =>
        LET s == Get(yield_fetched)
            n == Len(s)
        IN /\ n - 30 >= 1
           /\ Get(yield_analysis).change_30_days = s[n] - s[n - 30]

\* C9 amended: the value compared with the latest spread is the first of the last 30
\* observations, 29 positions before the latest; it gives change_30_days and it is the
\* value tested for being negative.
C9_TwentyNineBefore ==
    (YieldRan /\ Present(yield_fetched, 30)) =>
        LET s == Get(yield_fetched)
            n == Len(s)
            a == Get(yield_analysis)
        IN /\ a.change_30_days = s[n] - s[n - 29]
           /\ (s[n] >= 0 /\ a.change_30_days > 50) =>
                (a.rapid_normalization <=> s[n - 29] < 0)

\* more than 30 spreads; the values 29 and 30 positions before the latest differ in
\* sign and the change is large: the label follows the one 29 before
C9_Witness ==
    /\ YieldRan /\ Present(yield_fetched, 31)
    /\ LET s == Get(yield_fetched)
           n == Len(s)
       IN /\ s[n - 29] < 0 /\ s[n - 30] >= 0 /\ s[n] >= 0
          /\ s[n] - s[n - 29] > 50
          /\ Get(yield_analysis).rapid_normalization

---------------------------------------------------------------------------
(* Properties of get_pmi_data_alternative *)

PrimaryReturned == Len(outcome) >= 1 /\ outcome[1].result = "returned"

ScrapeReturned == Len(outcome) = 2 /\ outcome[2].result = "returned"

BackupReturned == Len(outcome) = 3

ReturnedValues == Get(Get(returned).series).values

\* C6: the primary strategy's series is returned only if the current reading parsed
\* from the response is a number within [0, 100]; with a reading outside it the
\* resolver goes on to the scrape.
C6_PrimaryRangeChecked ==
    PrimaryReturned =>
        LET data == Get(response).json.items
            reading == GetValue(data[Len(data)], 498)
        IN reading # NaN /\ 0 <= Get(reading) /\ Get(reading) <= 1000

\* C7: the resolver always returns, and what it returns is a series with exactly one
\* value for each of the month ends from 2023-01-01 to now, whichever strategy made
\* it; the backup strategy runs only after the primary and the scrape strategy have
\* both ended without returning.
C7_NeverFails ==
    /\ rpc \in {"primary", "scrape", "backup"} => ENABLED NextResolver
    /\ rpc = "done" =>
         /\ ~IsNone(returned) /\ ~Get(returned).raised
         /\ LET s == Get(Get(returned).series) IN
            /\ Len(s.index) = now /\ \A i \in 1..now : s.index[i] = i
            /\ Len(s.values) = now
    /\ (rpc = "backup" \/ BackupReturned) =>
         /\ Len(outcome) >= 2
         /\ outcome[1].strategy = "primary" /\ outcome[1].result # "returned"
         /\ outcome[2].strategy = "scrape" /\ outcome[2].result # "returned"

\* the backup data repeated to cover more dates than it has entries, after the API
\* call raised and the page held no reading
C7_Witness ==
    /\ rpc = "done" /\ BackupReturned
    /\ now > Len(realistic_pmi_data)
    /\ outcome[1].result = "exception" /\ outcome[2].result = "declined"
    /\ Len(ReturnedValues) = now

\* C8: a series of the scrape strategy ends with the reading, and its earlier values
\* are template constants that are the same whatever the reading is.
C8_TemplateButLast ==
    ScrapeReturned =>
        LET reading == Get(CurrentValue(Get(response).page)) IN
        /\ ReturnedValues[now] = Cell(reading)
        /\ \A other \in {1, 9999} : \A i \in 1..(now - 1) :
             ReturnedValues[i] = Cell(ScrapeValues(now, other)[i])

\* C10: when the primary strategy returns and the source held fewer points than there
\* are dates, every value the source returned is a value of the series.
C10_ReturnedPointsKept ==
    (PrimaryReturned /\ Len(Get(response).json.items) < now) =>
        LET data == Get(response).json.items IN
        \A i \in 1..Len(data) :
            \E j \in 1..now : ReturnedValues[j] = GetValue(data[i], 500)

=============================================================================
